---- MODULE Spec2Model ----
(***************************************************************************)
(* CareSense: the lexicon sentiment engine (sentiment_engine.py), the      *)
(* aggregation built on it (metrics.py) and the app's in-memory review     *)
(* list (app.py).                                                          *)
(*                                                                         *)
(* Text is a sequence of one-character strings, so that the character      *)
(* scans of the source (strip, split, punctuation removal, the sentence    *)
(* splitter) are computed as the source computes them.  The empty text     *)
(* is <<>>.                                                                *)
(*                                                                         *)
(* Numbers.  The source computes in floating point; the model computes     *)
(* the same sums and products exactly:                                     *)
(*   - Lookahead policy (score_tokens, analyze_text): a polarity and a     *)
(*     modifier factor are held in tenths (1.5 is 15), a score in          *)
(*     hundredths (1.5 is 150, 1.5 * 1.5 is 225, the threshold 0.5 is 50). *)
(*   - Running-scale policy (analyze_review): a polarity is held in        *)
(*     tenths, a factor in hundredths, and the running scale and total are *)
(*     exact fractions <<numerator, denominator>>.                         *)
(***************************************************************************)
EXTENDS Integers, Sequences, FiniteSets, TLC

VARIABLES
    text,           \* analyze_text / analyze_review: the review text
    lexicon,        \* analyze_text / score_tokens: the lexicon passed in
    result,         \* analyze_text's return value, <<>> before it returns
    review,         \* analyze_review's return value, <<>> before it returns
    tokens,         \* score_tokens: its token list
    i,              \* score_tokens: the loop index (0-based, as in the source)
    score,          \* score_tokens: the running score
    total,          \* the classifier's input, a total score
    labels,         \* the labels the two classifiers give to total
    sent_scores,    \* the segment finder's input
    best_segment,   \* the segment finder's output
    d,              \* top_k: the count mapping
    k,              \* top_k: the cut
    top,            \* top_k's return value
    raw,            \* bucket_rating: the raw rating
    bucket,         \* bucket_rating's return value
    rows,           \* accumulate_counts: the rows consumed so far
    counts,         \* accumulate_counts: its five counters
    snapshot,       \* accumulate_counts's return value
    negate_next,    \* analyze_review: the negate flag of the token scan
    scale,          \* analyze_review: the running scale of the token scan
    sentences,      \* split_sentences's return value
    year_filter,    \* monthly_card_metrics / monthly_sentiment_trend: the year
    state_filter,   \* monthly_card_metrics: the state
    metrics,        \* monthly_card_metrics's outcome, <<>> before it ends
    trend,          \* monthly_sentiment_trend's outcome, <<>> before it ends
    dataset,        \* app: the rows load_reviews_csv reads from the file
    REVIEWS,        \* app: the module's list of reviews
    loads,          \* app: the calls of load_reviews_csv so far
    requests,       \* app: the requests served so far
    pc              \* where the operation under way stands

vars ==
    <<text, lexicon, result, review, tokens, i, score, total, labels, sent_scores,
      best_segment, d, k, top, raw, bucket, rows, counts, snapshot, negate_next, scale,
      sentences, year_filter, state_filter, metrics, trend, dataset, REVIEWS, loads,
      requests, pc>>

-----------------------------------------------------------------------------
(* Bounds of the model.                                                    *)

\* Pieces a review text is put together from.
MaxPieces == 3
\* Tokens handed to score_tokens.
MaxTokens == 3
\* Scored sentences handed to the segment finder.
MaxSentences == 4
\* Largest sentence score (in units of 0.5) drawn for the segment finder.
MaxScore == 2
\* Largest count of a count mapping handed to top_k.
MaxCount == 2
\* Largest cut handed to top_k.
MaxK == 3
\* Rows fed to one pass of accumulate_counts.
MaxRows == 3
\* Largest total score (in hundredths) handed to the classifiers.
MaxTotal == 60
\* Largest rating (in tenths) handed to bucket_rating.
MaxRating == 65
\* Requests served by the app.
MaxRequests == 3

-----------------------------------------------------------------------------
(* Characters and strings.                                                 *)

\* The printable ASCII characters in code order, 32 (space) to 126.  A TLA+
\* string cannot hold the backquote (code 96): "BACKQUOTE" stands for it.
ASCII ==
    << " ", "!", "\"", "#", "$", "%", "&", "'", "(", ")", "*", "+", ",", "-", ".", "/", "0",
       "1", "2", "3", "4", "5", "6", "7", "8", "9", ":", ";", "<", "=", ">", "?", "@", "A",
       "B", "C", "D", "E", "F", "G", "H", "I", "J", "K", "L", "M", "N", "O", "P", "Q", "R",
       "S", "T", "U", "V", "W", "X", "Y", "Z", "[", "\\", "]", "^", "_", "BACKQUOTE", "a",
       "b", "c", "d", "e", "f", "g", "h", "i", "j", "k", "l", "m", "n", "o", "p", "q", "r",
       "s", "t", "u", "v", "w", "x", "y", "z", "{", "|", "}", "~" >>

\* ord(ch) - 31: "\t" is 9 and "\n" is 10, the printable characters are 32..126.
Ord(ch) ==
    IF ch = "\t" THEN -22 ELSE IF ch = "\n" THEN -21
    ELSE CHOOSE n \in 1..Len(ASCII) : ASCII[n] = ch

\* str.isupper / str.lower on one character: "A" is ASCII[34], "a" is ASCII[66].
lower_char(ch) ==
    IF Ord(ch) >= 34 /\ Ord(ch) <= 59 THEN ASCII[Ord(ch) + 32] ELSE ch

\* str.isalnum on one character: digits are ASCII[17..26].
isalnum(ch) ==
    \/ Ord(ch) >= 17 /\ Ord(ch) <= 26
    \/ Ord(ch) >= 34 /\ Ord(ch) <= 59
    \/ Ord(ch) >= 66 /\ Ord(ch) <= 91

\* The characters str.strip() and str.split() treat as whitespace.
Whitespace == {" ", "\t", "\n"}

lower(s) == [n \in 1..Len(s) |-> lower_char(s[n])]

RECURSIVE lstrip(_)
lstrip(s) ==
    IF s # <<>> /\ Head(s) \in Whitespace THEN lstrip(Tail(s)) ELSE s

RECURSIVE rstrip(_)
rstrip(s) ==
    IF s # <<>> /\ s[Len(s)] \in Whitespace THEN rstrip(SubSeq(s, 1, Len(s) - 1)) ELSE s

strip(s) == rstrip(lstrip(s))

\* str.split(): the maximal runs of non-whitespace characters, in order.
\* cur is the run being read.
RECURSIVE split_from(_, _)
split_from(s, cur) ==
    IF s = <<>> THEN (IF cur = <<>> THEN <<>> ELSE <<cur>>)
    ELSE IF Head(s) \in Whitespace
         THEN (IF cur = <<>> THEN <<>> ELSE <<cur>>) \o split_from(Tail(s), <<>>)
         ELSE split_from(Tail(s), Append(cur, Head(s)))

split(s) == split_from(s, <<>>)

\* sep.join(parts)
RECURSIVE join(_, _)
join(sep, parts) ==
    IF parts = <<>> THEN <<>>
    ELSE IF Len(parts) = 1 THEN parts[1]
    ELSE parts[1] \o sep \o join(sep, Tail(parts))

\* str.endswith for a one-character suffix
endswith(s, ch) == s # <<>> /\ s[Len(s)] = ch

\* v in t  (substring test)
contains(t, v) ==
    \E n \in 1..(Len(t) - Len(v) + 1) : SubSeq(t, n, n + Len(v) - 1) = v

\* a < b for Python strings: lexicographic by character code.
RECURSIVE str_less(_, _)
str_less(a, b) ==
    IF b = <<>> THEN FALSE
    ELSE IF a = <<>> THEN TRUE
    ELSE IF Head(a) = Head(b) THEN str_less(Tail(a), Tail(b))
    ELSE Ord(Head(a)) < Ord(Head(b))

\* dict.get(key, 0.0)
get(dict, key) == IF key \in DOMAIN dict THEN dict[key] ELSE 0

-----------------------------------------------------------------------------
(* sentiment_engine.py, the Lookahead engine: tables.                      *)

STOPWORDS ==
    { <<"a">>, <<"a","n">>, <<"t","h","e">>, <<"a","n","d">>, <<"o","r">>, <<"b","u","t">>,
      <<"i","f">>, <<"s","o">>, <<"t","o">>, <<"o","f">>, <<"f","o","r">>, <<"i","n">>,
      <<"o","n">>, <<"a","t">>, <<"w","i","t","h">>, <<"t","h","i","s">>, <<"t","h","a","t">>,
      <<"t","h","e","s","e">>, <<"t","h","o","s","e">>, <<"i","t">>, <<"i","s">>,
      <<"a","r","e">>, <<"w","a","s">>, <<"w","e","r","e">>, <<"b","e">>, <<"b","e","e","n">>,
      <<"b","e","i","n","g">>, <<"i">>, <<"y","o","u">>, <<"h","e">>, <<"s","h","e">>,
      <<"t","h","e","y">>, <<"w","e">>, <<"m","e">>, <<"h","i","m">>, <<"h","e","r">>,
      <<"t","h","e","m">>, <<"m","y">>, <<"y","o","u","r">>, <<"o","u","r">>,
      <<"t","h","e","i","r">> }

PUNCT ==
    { ",", ".", "!", "?", ":", ";", "\"", "'", "(", ")", "[", "]", "{", "}", "-", "/", "\\" }

NEGATIONS ==
    { <<"n","o","t">>, <<"n","o">>, <<"n","e","v","e","r">>, <<"n","'","t">> }

\* factors in tenths
INTENSIFIERS ==
    <<"v","e","r","y">> :> 15 @@ <<"r","e","a","l","l","y">> :> 13 @@ <<"s","o">> :> 12 @@
    <<"e","x","t","r","e","m","e","l","y">> :> 18

\* factors in tenths
DEINTENSIFIERS ==
    <<"s","l","i","g","h","t","l","y">> :> 7 @@ <<"s","o","m","e","w","h","a","t">> :> 8 @@
    <<"b","a","r","e","l","y">> :> 6

\* tiny_lexicon.py: polarities in tenths
LEXICON ==
    <<"g","o","o","d">> :> 15 @@ <<"g","r","e","a","t">> :> 20 @@
    <<"e","x","c","e","l","l","e","n","t">> :> 25 @@ <<"c","l","e","a","n">> :> 8 @@
    <<"p","l","e","a","s","a","n","t">> :> 9 @@
    <<"w","e","l","c","o","m","i","n","g">> :> 12 @@
    <<"a","t","t","e","n","t","i","v","e">> :> 13 @@
    <<"e","f","f","i","c","i","e","n","t">> :> 10 @@
    <<"f","a","n","t","a","s","t","i","c">> :> 22 @@ <<"g","l","a","d">> :> 7 @@
    <<"h","o","s","p","i","t","a","b","l","e">> :> 14 @@
    <<"f","r","i","e","n","d","l","y">> :> 12 @@ <<"h","e","l","p","f","u","l">> :> 11 @@
    <<"q","u","i","c","k">> :> 7 @@
    <<"p","r","o","f","e","s","s","i","o","n","a","l">> :> 11 @@
    <<"b","e","d","s","i","d","e">> :> 4 @@ <<"m","a","n","n","e","r">> :> 3 @@
    <<"b","a","d">> :> -15 @@ <<"w","o","r","s","t">> :> -25 @@
    <<"d","i","r","t","y">> :> -15 @@ <<"r","u","d","e">> :> -20 @@
    <<"s","l","o","w">> :> -9 @@ <<"u","n","p","l","e","a","s","a","n","t">> :> -12 @@
    <<"u","n","w","e","l","c","o","m","i","n","g">> :> -13 @@
    <<"i","n","e","f","f","i","c","i","e","n","t">> :> -11 @@
    <<"p","a","i","n","f","u","l">> :> -10 @@ <<"c","o","n","f","u","s","i","n","g">> :> -8 @@
    <<"e","x","p","e","n","s","i","v","e">> :> -7 @@ <<"w","a","i","t">> :> -4 @@
    <<"w","a","i","t","i","n","g">> :> -4 @@ <<"c","r","o","w","d","e","d">> :> -7 @@
    <<"s","k","e","p","t","i","c","a","l">> :> -3 @@ <<"d","o","c","t","o","r">> :> 4 @@
    <<"n","u","r","s","e">> :> 3 @@ <<"f","r","o","n","t">> :> 0 @@ <<"d","e","s","k">> :> 0 @@
    <<"c","l","i","n","i","c">> :> 2 @@ <<"c","a","r","e">> :> 3 @@
    <<"u","r","g","e","n","t">> :> 0 @@ <<"h","e","a","l","t","h">> :> 2 @@
    <<"a","r","e","a">> :> 0 @@ <<"r","o","o","m","s">> :> 0

-----------------------------------------------------------------------------
(* sentiment_engine.py, the Lookahead engine: functions.                   *)

\* normalize without its strip(): the variant the blank-text check rules out.
normalize_no_strip(s) == lower(s)

normalize(s) == strip(lower(s))

remove_punct(s) == SelectSeq(s, LAMBDA ch : ch \notin PUNCT)

tokenize(s) == split(s)

drop_stopwords(toks) == SelectSeq(toks, LAMBDA t : t \notin STOPWORDS)

enders == {".", "!", "?"}

\* The scan of split_sentences over the rest s of the text, with buffer buff.
RECURSIVE split_sentences_from(_, _)
split_sentences_from(s, buff) ==
    IF s = <<>>
    THEN (IF buff # <<>> THEN <<strip(buff)>> ELSE <<>>)
    ELSE IF Head(s) \in enders
         THEN <<strip(Append(buff, Head(s)))>> \o split_sentences_from(Tail(s), <<>>)
         ELSE split_sentences_from(Tail(s), Append(buff, Head(s)))

\* The splitter without its last step: what is left in the buffer after the
\* last terminator is not emitted.
split_sentences_no_rest(s) ==
    LET all == split_sentences_from(s, <<>>)
    IN  IF s # <<>> /\ s[Len(s)] \notin enders THEN SubSeq(all, 1, Len(all) - 1) ELSE all

split_sentences(s) == split_sentences_from(s, <<>>)

\* score_tokens's loop body with a negator that does not consume the token
\* it flips (i += 1): the variant the negation check rules out.
score_step_keep_next(toks, lex, st) ==
    LET t == toks[st.i + 1]
        has_next == st.i + 1 < Len(toks)
        base == get(lex, toks[st.i + 2])
    IN  IF t \in NEGATIONS /\ has_next
        THEN [i |-> st.i + 1, score |-> st.score - 10 * base]
        ELSE IF t \in DOMAIN INTENSIFIERS /\ has_next
        THEN [i |-> st.i + 2, score |-> st.score + base * INTENSIFIERS[t]]
        ELSE IF t \in DOMAIN DEINTENSIFIERS /\ has_next
        THEN [i |-> st.i + 2, score |-> st.score + base * DEINTENSIFIERS[t]]
        ELSE [i |-> st.i + 1, score |-> st.score + 10 * get(lex, t)]

\* One iteration of score_tokens's while loop, from st = [i, score] with
\* st.i < len(tokens).  tokens[i] of the source is toks[i + 1] here.
score_step(toks, lex, st) ==
    LET t == toks[st.i + 1]
        has_next == st.i + 1 < Len(toks)
        base == get(lex, toks[st.i + 2])
    IN  IF t \in NEGATIONS /\ has_next
        THEN [i |-> st.i + 2, score |-> st.score - 10 * base]
        ELSE IF t \in DOMAIN INTENSIFIERS /\ has_next
        THEN [i |-> st.i + 2, score |-> st.score + base * INTENSIFIERS[t]]
        ELSE IF t \in DOMAIN DEINTENSIFIERS /\ has_next
        THEN [i |-> st.i + 2, score |-> st.score + base * DEINTENSIFIERS[t]]
        ELSE [i |-> st.i + 1, score |-> st.score + 10 * get(lex, t)]

\* The while loop of score_tokens run from st to its end: the score returned.
RECURSIVE score_run(_, _, _)
score_run(toks, lex, st) ==
    IF st.i < Len(toks) THEN score_run(toks, lex, score_step(toks, lex, st)) ELSE st.score

score_tokens(toks, lex) == score_run(toks, lex, [i |-> 0, score |-> 0])

\* analyze_text's label, from the total in hundredths.
text_label(t) ==
    IF t > 50 THEN "positive" ELSE IF t < -50 THEN "negative" ELSE "neutral"

\* sum(sc for _, sc in seg)
RECURSIVE sum_scores(_)
sum_scores(seg) ==
    IF seg = <<>> THEN 0 ELSE Head(seg)[2] + sum_scores(Tail(seg))

abs(x) == IF x < 0 THEN -x ELSE x

min(a, b) == IF a < b THEN a ELSE b

max(a, b) == IF a > b THEN a ELSE b

\* The windows in the order the two nested loops visit them: <<window, i>>
\* for window = w..min(3, n) and, within one window size, i = 0..n - window.
RECURSIVE windows_from(_, _)
windows_from(w, n) ==
    IF w > min(3, n) THEN <<>>
    ELSE [j \in 1..(n - w + 1) |-> <<w, j - 1>>] \o windows_from(w + 1, n)

\* The replacement test with >= for >: the last of equal windows would win.
stronger_or_equal(seg_score, best) == abs(seg_score) >= abs(best.score)

\* The test that lets a window replace the best segment so far.
stronger(seg_score, best) == abs(seg_score) > abs(best.score)

\* The body of the inner loop for one window <<window, i>>.
window_step(ss, win, best) ==
    LET seg == SubSeq(ss, win[2] + 1, win[2] + win[1])
        seg_score == sum_scores(seg)
    IN  IF stronger(seg_score, best)
        THEN [start |-> win[2], end |-> win[2] + win[1] - 1, score |-> seg_score,
              text |-> join(<<" ">>, [n \in 1..Len(seg) |-> seg[n][1]])]
        ELSE best

RECURSIVE windows_run(_, _, _)
windows_run(ss, wins, best) ==
    IF wins = <<>> THEN best
    ELSE windows_run(ss, Tail(wins), window_step(ss, Head(wins), best))

\* The sliding window of analyze_text over the scored sentences ss.
strongest_segment(ss) ==
    windows_run(ss, windows_from(1, Len(ss)),
                [start |-> 0, end |-> 0, score |-> 0, text |-> <<>>])

\* max(sent_scores, key = score), min(...): the first of the largest (smallest).
most_pos(ss) ==
    IF ss = <<>> THEN <<<<>>, 0>>
    ELSE ss[CHOOSE n \in 1..Len(ss) :
                /\ \A m \in 1..Len(ss) : ss[m][2] <= ss[n][2]
                /\ \A m \in 1..(n - 1) : ss[m][2] < ss[n][2]]

most_neg(ss) ==
    IF ss = <<>> THEN <<<<>>, 0>>
    ELSE ss[CHOOSE n \in 1..Len(ss) :
                /\ \A m \in 1..Len(ss) : ss[m][2] >= ss[n][2]
                /\ \A m \in 1..(n - 1) : ss[m][2] > ss[n][2]]

\* The pair analyze_text appends for sentence s.
scored_sentence(s, lex) ==
    <<s, score_tokens(drop_stopwords(tokenize(remove_punct(s))), lex)>>

analyze_text(txt, lex) ==
    LET sents == split_sentences(normalize(txt))
        ss == [n \in 1..Len(sents) |-> scored_sentence(sents[n], lex)]
        tot == sum_scores(ss)
    IN  [total_score |-> tot,
         label |-> text_label(tot),
         sentence_scores |-> ss,
         most_positive_sentence |-> most_pos(ss),
         most_negative_sentence |-> most_neg(ss),
         strongest_segment |-> strongest_segment(ss)]

-----------------------------------------------------------------------------
(* sentiment_engine.py, the Running-scale engine (analyze_review).         *)

\* tiny_lexicon.py: polarities in tenths
POLARITY ==
    <<"g","o","o","d">> :> 10 @@ <<"g","r","e","a","t">> :> 15 @@
    <<"e","x","c","e","l","l","e","n","t">> :> 20 @@ <<"a","m","a","z","i","n","g">> :> 20 @@
    <<"f","r","i","e","n","d","l","y">> :> 12 @@ <<"c","l","e","a","n">> :> 8 @@
    <<"p","r","o","f","e","s","s","i","o","n","a","l">> :> 10 @@ <<"k","i","n","d">> :> 10 @@
    <<"h","e","l","p","f","u","l">> :> 10 @@ <<"q","u","i","c","k">> :> 6 @@
    <<"b","a","d">> :> -10 @@ <<"t","e","r","r","i","b","l","e">> :> -20 @@
    <<"a","w","f","u","l">> :> -20 @@ <<"r","u","d","e">> :> -15 @@
    <<"d","i","r","t","y">> :> -12 @@ <<"s","l","o","w">> :> -8 @@
    <<"e","x","p","e","n","s","i","v","e">> :> -6 @@ <<"p","a","i","n","f","u","l">> :> -12 @@
    <<"w","a","i","t">> :> -5 @@ <<"w","a","i","t","i","n","g">> :> -5

NEGATORS ==
    { <<"n","o","t">>, <<"n","o">>, <<"n","e","v","e","r">>, <<"n","'","t">> }

\* factors in hundredths
REVIEW_INTENSIFIERS ==
    <<"v","e","r","y">> :> 125 @@ <<"r","e","a","l","l","y">> :> 120 @@
    <<"e","x","t","r","e","m","e","l","y">> :> 150 @@ <<"t","o","o">> :> 115

\* factors in hundredths
REVIEW_DEINTENSIFIERS ==
    <<"s","l","i","g","h","t","l","y">> :> 80 @@ <<"s","o","m","e","w","h","a","t">> :> 90 @@
    <<"b","a","r","e","l","y">> :> 70

\* factors in hundredths
PUNCT_BOOST == "!" :> 110 @@ "?" :> 105

\* Exact fractions <<numerator, denominator>>, denominator > 0, in lowest terms.
RECURSIVE gcd(_, _)
gcd(a, b) == IF b = 0 THEN a ELSE gcd(b, a % b)

frac(n, dn) ==
    LET g == gcd(abs(n), dn) IN <<n \div g, dn \div g>>

f_add(a, b) == frac(a[1] * b[2] + b[1] * a[2], a[2] * b[2])

f_mul(a, b) == frac(a[1] * b[1], a[2] * b[2])

f_neg(a) == <<-a[1], a[2]>>

\* One word of simple_tokenize: w[start:end] after both while loops.
RECURSIVE strip_front(_)
strip_front(w) ==
    IF w # <<>> /\ ~isalnum(Head(w)) THEN strip_front(Tail(w)) ELSE w

RECURSIVE strip_back(_)
strip_back(w) ==
    IF w # <<>> /\ ~isalnum(w[Len(w)]) THEN strip_back(SubSeq(w, 1, Len(w) - 1)) ELSE w

core(w) == strip_back(strip_front(w))

simple_tokenize(txt) ==
    SelectSeq([n \in 1..Len(split(lower(txt))) |-> core(split(lower(txt))[n])],
              LAMBDA c : c # <<>>)

\* The loop body with a negator toggling the flag, so that two negators cancel.
review_step_toggle(st, t) ==
    IF t \in NEGATORS THEN [st EXCEPT !.negate_next = ~@]
    ELSE IF t \in DOMAIN REVIEW_INTENSIFIERS
    THEN [st EXCEPT !.scale = f_mul(@, frac(REVIEW_INTENSIFIERS[t], 100))]
    ELSE IF t \in DOMAIN REVIEW_DEINTENSIFIERS
    THEN [st EXCEPT !.scale = f_mul(@, frac(REVIEW_DEINTENSIFIERS[t], 100))]
    ELSE LET val0 == frac(get(POLARITY, t), 10)
             val == IF st.negate_next THEN f_neg(val0) ELSE val0
         IN  [total |-> f_add(st.total, f_mul(val, st.scale)),
              negate_next |-> FALSE,
              scale |-> f_add(<<1, 1>>, f_mul(f_add(st.scale, <<-1, 1>>), <<1, 2>>))]

\* The body of analyze_review's for loop for token t, from
\* st = [total, negate_next, scale].
review_step(st, t) ==
    IF t \in NEGATORS THEN [st EXCEPT !.negate_next = TRUE]
    ELSE IF t \in DOMAIN REVIEW_INTENSIFIERS
    THEN [st EXCEPT !.scale = f_mul(@, frac(REVIEW_INTENSIFIERS[t], 100))]
    ELSE IF t \in DOMAIN REVIEW_DEINTENSIFIERS
    THEN [st EXCEPT !.scale = f_mul(@, frac(REVIEW_DEINTENSIFIERS[t], 100))]
    ELSE LET val0 == frac(get(POLARITY, t), 10)
             val == IF st.negate_next THEN f_neg(val0) ELSE val0
         IN  [total |-> f_add(st.total, f_mul(val, st.scale)),
              negate_next |-> FALSE,
              scale |-> f_add(<<1, 1>>, f_mul(f_add(st.scale, <<-1, 1>>), <<1, 2>>))]

RECURSIVE review_run(_, _)
review_run(st, toks) ==
    IF toks = <<>> THEN st ELSE review_run(review_step(st, Head(toks)), Tail(toks))

\* The punctuation boost applied to the total tot.
boost(txt, tot) ==
    IF endswith(txt, "!") THEN f_mul(tot, frac(PUNCT_BOOST["!"], 100))
    ELSE IF endswith(txt, "?") THEN f_mul(tot, frac(PUNCT_BOOST["?"], 100))
    ELSE tot

\* analyze_review's label, from the total as a fraction.
review_label(tot) ==
    IF 2 * tot[1] >= tot[2] THEN "positive"
    ELSE IF 2 * tot[1] <= -tot[2] THEN "negative"
    ELSE "neutral"

\* round(total, 3), in thousandths: the nearest thousandth, a tie to the even one.
round3(tot) ==
    LET n == 1000 * tot[1]
        q == n \div tot[2]
        r == n - q * tot[2]
    IN  IF 2 * r < tot[2] THEN q
        ELSE IF 2 * r > tot[2] THEN q + 1
        ELSE IF q % 2 = 0 THEN q ELSE q + 1

\* analyze_review: <<label, score in thousandths>>
analyze_review(txt) ==
    LET st == review_run([total |-> <<0, 1>>, negate_next |-> FALSE, scale |-> <<1, 1>>],
                         simple_tokenize(txt))
        tot == boost(txt, st.total)
    IN  <<review_label(tot), round3(tot)>>

-----------------------------------------------------------------------------
(* The analyzer run on one text.                                           *)

\* The lexicon of the specification's examples, in tenths.
TEST_LEXICON == <<"g","o","o","d">> :> 15 @@ <<"b","a","d">> :> -15

Lexicons == {LEXICON, TEST_LEXICON}

TextPieces ==
    { <<" ">>, <<"\t">>, <<".">>, <<"!">>, <<"g","o","o","d">>, <<"B","a","d">>,
      <<"s","o"," ">>, <<"n","o","t"," ">> }

\* The texts put together from n pieces.
RECURSIVE PieceTexts(_)
PieceTexts(n) ==
    IF n = 0 THEN {<<>>}
    ELSE PieceTexts(n - 1) \cup {p \o q : p \in TextPieces, q \in PieceTexts(n - 1)}

\* The texts "m x": a degree modifier, one space, a word of LEXICON.
Modifiers == DOMAIN INTENSIFIERS \cup DOMAIN DEINTENSIFIERS

TwoWordTexts == {m \o <<" ">> \o x : m \in Modifiers, x \in DOMAIN LEXICON}

Texts == PieceTexts(MaxPieces) \cup TwoWordTexts

IdleAnalyze == text = <<>> /\ lexicon = <<>> /\ result = <<>> /\ review = <<>>
IdleScore == tokens = <<>> /\ i = 0 /\ score = 0
IdleClassify == total = 0 /\ labels = <<>>
IdleSegment == sent_scores = <<>> /\ best_segment = <<>>
IdleTopK == d = <<>> /\ k = 0 /\ top = <<>>
IdleBucket == raw = <<>> /\ bucket = <<>>
IdleAggregate == rows = <<>> /\ counts = <<>> /\ snapshot = <<>>
IdleScan == negate_next = FALSE /\ scale = <<1, 1>>
IdleSplit == sentences = <<>>
IdleMonthly == year_filter = <<>> /\ state_filter = <<>> /\ metrics = <<>> /\ trend = <<>>
IdleApp == dataset = <<>> /\ REVIEWS = <<>> /\ loads = 0 /\ requests = 0

analyzeVars == <<text, lexicon, result, review>>
scoreVars == <<tokens, i, score>>
classifyVars == <<total, labels>>
segmentVars == <<sent_scores, best_segment>>
topkVars == <<d, k, top>>
bucketVars == <<raw, bucket>>
aggregateVars == <<rows, counts, snapshot>>
scanVars == <<negate_next, scale>>
splitVars == <<sentences>>
monthlyVars == <<year_filter, state_filter, metrics, trend>>
appVars == <<dataset, REVIEWS, loads, requests>>

InitAnalyze ==
    /\ text \in Texts
    /\ lexicon \in Lexicons
    /\ result = <<>>
    /\ review = <<>>
    /\ pc = "analyze"
    /\ IdleScore /\ IdleClassify /\ IdleSegment /\ IdleTopK /\ IdleBucket /\ IdleAggregate
    /\ IdleScan /\ IdleSplit /\ IdleMonthly /\ IdleApp

\* analyze_text(text, lexicon) is called and returns.
AnalyzeText ==
    /\ pc = "analyze"
    /\ result = <<>>
    /\ result' = <<analyze_text(text, lexicon)>>
    /\ UNCHANGED <<text, lexicon, review, pc>>
    /\ UNCHANGED <<scoreVars, classifyVars, segmentVars, topkVars, bucketVars, aggregateVars>>
    /\ UNCHANGED <<scanVars, splitVars, monthlyVars, appVars>>

\* analyze_review(text) is called and returns.
AnalyzeReview ==
    /\ pc = "analyze"
    /\ review = <<>>
    /\ review' = <<analyze_review(text)>>
    /\ UNCHANGED <<text, lexicon, result, pc>>
    /\ UNCHANGED <<scoreVars, classifyVars, segmentVars, topkVars, bucketVars, aggregateVars>>
    /\ UNCHANGED <<scanVars, splitVars, monthlyVars, appVars>>

NextAnalyze == AnalyzeText \/ AnalyzeReview

Spec == InitAnalyze /\ [][NextAnalyze]_vars

-----------------------------------------------------------------------------
(* score_tokens, one loop iteration at a time.                             *)

TokenWords ==
    { <<"n","o","t">>, <<"n","o">>, <<"n","e","v","e","r">>, <<"n","'","t">>,
      <<"v","e","r","y">>, <<"s","l","i","g","h","t","l","y">>,
      <<"g","o","o","d">>, <<"b","a","d">>, <<"m","e","h">> }

\* The token lists of at most n tokens.
RECURSIVE TokenLists(_)
TokenLists(n) ==
    IF n = 0 THEN {<<>>}
    ELSE TokenLists(n - 1) \cup {Append(p, w) : p \in TokenLists(n - 1), w \in TokenWords}

InitScore ==
    /\ tokens \in TokenLists(MaxTokens)
    /\ lexicon \in Lexicons
    /\ i = 0
    /\ score = 0
    /\ pc = "score"
    /\ text = <<>> /\ result = <<>> /\ review = <<>>
    /\ IdleClassify /\ IdleSegment /\ IdleTopK /\ IdleBucket /\ IdleAggregate
    /\ IdleScan /\ IdleSplit /\ IdleMonthly /\ IdleApp

\* One iteration of the while loop.
ScoreStep ==
    /\ pc = "score"
    /\ i < Len(tokens)
    /\ i' = score_step(tokens, lexicon, [i |-> i, score |-> score]).i
    /\ score' = score_step(tokens, lexicon, [i |-> i, score |-> score]).score
    /\ UNCHANGED <<tokens, lexicon, pc, text, result, review>>
    /\ UNCHANGED <<classifyVars, segmentVars, topkVars, bucketVars, aggregateVars>>
    /\ UNCHANGED <<scanVars, splitVars, monthlyVars, appVars>>

\* The loop condition fails: return score.
ScoreReturn ==
    /\ pc = "score"
    /\ i >= Len(tokens)
    /\ pc' = "returned"
    /\ UNCHANGED <<tokens, lexicon, i, score, text, result, review>>
    /\ UNCHANGED <<classifyVars, segmentVars, topkVars, bucketVars, aggregateVars>>
    /\ UNCHANGED <<scanVars, splitVars, monthlyVars, appVars>>

NextScore == ScoreStep \/ ScoreReturn

SpecScore == InitScore /\ [][NextScore]_vars

-----------------------------------------------------------------------------
(* The two classifiers on one total score.                                 *)

InitClassify ==
    /\ total \in (-MaxTotal)..MaxTotal
    /\ labels = <<>>
    /\ pc = "classify"
    /\ IdleAnalyze /\ IdleScore /\ IdleSegment /\ IdleTopK /\ IdleBucket /\ IdleAggregate
    /\ IdleScan /\ IdleSplit /\ IdleMonthly /\ IdleApp

\* Both engines label the total (in hundredths).
Classify ==
    /\ pc = "classify"
    /\ labels' = [analyze_text |-> text_label(total),
                  analyze_review |-> review_label(frac(total, 100))]
    /\ pc' = "classified"
    /\ UNCHANGED total
    /\ UNCHANGED <<analyzeVars, scoreVars, segmentVars, topkVars, bucketVars, aggregateVars>>
    /\ UNCHANGED <<scanVars, splitVars, monthlyVars, appVars>>

SpecClassify == InitClassify /\ [][Classify]_vars

-----------------------------------------------------------------------------
(* The segment finder on a list of scored sentences.                       *)

\* Sentence n of a drawn list reads "s<n>."; scores are drawn in steps of 0.5.
sentence_text(n) == <<"s", ASCII[17 + n], ".">>

ScoredLists(n) ==
    UNION {[1..m -> (-MaxScore)..MaxScore] : m \in 0..n}

InitSegment ==
    /\ \E sc \in ScoredLists(MaxSentences) :
           sent_scores = [n \in 1..Len(sc) |-> <<sentence_text(n), 50 * sc[n]>>]
    /\ best_segment = <<>>
    /\ pc = "segment"
    /\ IdleAnalyze /\ IdleScore /\ IdleClassify /\ IdleTopK /\ IdleBucket /\ IdleAggregate
    /\ IdleScan /\ IdleSplit /\ IdleMonthly /\ IdleApp

\* The sliding window runs over sent_scores.
FindSegment ==
    /\ pc = "segment"
    /\ best_segment' = strongest_segment(sent_scores)
    /\ pc' = "returned"
    /\ UNCHANGED sent_scores
    /\ UNCHANGED <<analyzeVars, scoreVars, classifyVars, topkVars, bucketVars, aggregateVars>>
    /\ UNCHANGED <<scanVars, splitVars, monthlyVars, appVars>>

SpecSegment == InitSegment /\ [][FindSegment]_vars

-----------------------------------------------------------------------------
(* metrics.py: bucket_rating and top_k.                                    *)

\* A raw rating is given by what float(raw) makes of it:
\*   [kind |-> "num", tenths |-> v]   a finite number, v / 10
\*   [kind |-> "nan", tenths |-> 0]   float("nan")
\*   [kind |-> "inf", tenths |-> 0]   float("inf")
\*   [kind |-> "bad", tenths |-> 0]   float raises ValueError ("", "abc", "4,5")
\*   [kind |-> "none", tenths |-> 0]  float raises TypeError (None)
num(v) == [kind |-> "num", tenths |-> v]

not_num(kd) == [kind |-> kd, tenths |-> 0]

\* Rounding to the nearest integer where int() truncates.
int_round(tenths) ==
    IF tenths >= 0 THEN (tenths + 5) \div 10 ELSE -((5 - tenths) \div 10)

\* int(x) of a finite float: truncation towards zero.
int_of(tenths) ==
    IF tenths >= 0 THEN tenths \div 10 ELSE -((-tenths) \div 10)

\* str(n) for the integers 1..5
str_of(n) == <<"1", "2", "3", "4", "5">>[n]

\* int() raises on nan (ValueError) and inf (OverflowError), float() on the
\* rest; "except Exception" catches each of them.
bucket_rating(r) ==
    IF r.kind = "num" THEN str_of(min(max(int_of(r.tenths), 1), 5)) ELSE "NA"

\* dict.items()
items(dd) == {<<key, dd[key]>> : key \in DOMAIN dd}

\* The sort key (-count, key) with the tie broken by descending key.
key_less_desc(a, b) ==
    \/ a[2] > b[2]
    \/ a[2] = b[2] /\ str_less(b[1], a[1])

\* The sort key (-count, key) of item a is less than that of item b.
key_less(a, b) ==
    \/ a[2] > b[2]
    \/ a[2] = b[2] /\ str_less(a[1], b[1])

\* sorted(its, key = lambda kv: (-kv[1], kv[0])) of a set of items, whose
\* keys differ.
RECURSIVE sorted_items(_)
sorted_items(its) ==
    IF its = {} THEN <<>>
    ELSE LET first == CHOOSE a \in its : \A b \in its \ {a} : key_less(a, b)
         IN  <<first>> \o sorted_items(its \ {first})

\* seq[:kk]
slice_to(seq, kk) ==
    IF kk >= 0 THEN SubSeq(seq, 1, min(kk, Len(seq)))
    ELSE SubSeq(seq, 1, max(Len(seq) + kk, 0))

top_k(dd, kk) == slice_to(sorted_items(items(dd)), kk)

RawRatings ==
    {num(v) : v \in (-MaxRating)..MaxRating}
        \cup {not_num(kd) : kd \in {"nan", "inf", "bad", "none"}}

InitBucket ==
    /\ raw \in RawRatings
    /\ bucket = <<>>
    /\ pc = "bucket"
    /\ IdleAnalyze /\ IdleScore /\ IdleClassify /\ IdleSegment /\ IdleTopK /\ IdleAggregate
    /\ IdleScan /\ IdleSplit /\ IdleMonthly /\ IdleApp

\* bucket_rating(raw) is called and returns.
BucketRating ==
    /\ pc = "bucket"
    /\ bucket' = bucket_rating(raw)
    /\ pc' = "returned"
    /\ UNCHANGED raw
    /\ UNCHANGED <<analyzeVars, scoreVars, classifyVars, segmentVars, topkVars, aggregateVars>>
    /\ UNCHANGED <<scanVars, splitVars, monthlyVars, appVars>>

SpecBucket == InitBucket /\ [][BucketRating]_vars

\* Keys of the count mappings drawn for top_k: a key and its prefix, an
\* upper-case and a lower-case key.
TopKeys ==
    { <<"C","A">>, <<"N">>, <<"N","Y">>, <<"c","a">>, <<"U","n","k","n","o","w","n">> }

CountMaps == UNION {[ks -> 1..MaxCount] : ks \in SUBSET TopKeys}

InitTopK ==
    /\ d \in CountMaps
    /\ k \in (-1)..MaxK
    /\ top = <<>>
    /\ pc = "top_k"
    /\ IdleAnalyze /\ IdleScore /\ IdleClassify /\ IdleSegment /\ IdleBucket /\ IdleAggregate
    /\ IdleScan /\ IdleSplit /\ IdleMonthly /\ IdleApp

\* top_k(d, k) is called and returns.
TopK ==
    /\ pc = "top_k"
    /\ top' = top_k(d, k)
    /\ pc' = "returned"
    /\ UNCHANGED <<d, k>>
    /\ UNCHANGED <<analyzeVars, scoreVars, classifyVars, segmentVars, bucketVars, aggregateVars>>
    /\ UNCHANGED <<scanVars, splitVars, monthlyVars, appVars>>

SpecTopK == InitTopK /\ [][TopK]_vars

-----------------------------------------------------------------------------
(* metrics.py: accumulate_counts, one row at a time.                       *)
(*                                                                         *)
(* A row is [text, rating, state, Label]: its "Review Text", its "Review   *)
(* Rating" (a raw rating as above), its "state" and its precomputed label. *)
(* An absent or None text or state is the empty string <<>>, which is     *)
(* what "row.get(..) or .." makes of it; an absent label is "".            *)

ISSUE_KEYS ==
    "wait" :> { <<"w","a","i","t">>, <<"w","a","i","t","i","n","g">>, <<"d","e","l","a","y">>,
                <<"d","e","l","a","y","e","d">>, <<"q","u","e","u","e">> } @@
    "staff" :> { <<"r","u","d","e">>, <<"u","n","f","r","i","e","n","d","l","y">>,
                 <<"d","i","s","m","i","s","s","i","v","e">>,
                 <<"a","t","t","i","t","u","d","e">> } @@
    "cleanliness" :> { <<"d","i","r","t","y">>, <<"u","n","c","l","e","a","n">>,
                       <<"f","i","l","t","h","y">> } @@
    "billing" :> { <<"b","i","l","l","i","n","g">>, <<"c","h","a","r","g","e">>,
                   <<"c","h","a","r","g","e","s">>, <<"e","x","p","e","n","s","i","v","e">> }

Unknown == <<"U","n","k","n","o","w","n">>

\* A defaultdict(int) with no key yet.
no_counts == [key \in {} |-> 0]

\* dd[key] = 1 where the source adds 1: a count that forgets what it held.
incr_set(dd, key) ==
    IF key \in DOMAIN dd THEN [dd EXCEPT ![key] = 1] ELSE dd @@ (key :> 1)

\* dd[key] += 1 on a defaultdict(int)
incr(dd, key) ==
    IF key \in DOMAIN dd THEN [dd EXCEPT ![key] = @ + 1] ELSE dd @@ (key :> 1)

\* dd[key] += 1 for each key of the list keys, in order
RECURSIVE incr_each(_, _)
incr_each(dd, keys) ==
    IF keys = <<>> THEN dd ELSE incr_each(incr(dd, Head(keys)), Tail(keys))

\* s.replace(old, " ") for a one-character old
blank_out(s, old) == [n \in 1..Len(s) |-> IF s[n] = old THEN " " ELSE s[n]]

\* (row.get("state", "") or "Unknown").strip() or "Unknown"
state_of(r) ==
    LET s == strip(IF r.state = <<>> THEN Unknown ELSE r.state)
    IN  IF s = <<>> THEN Unknown ELSE s

\* The issue buckets whose vocabulary has a word inside the lowered text t.
issues_hit(t) == {b \in DOMAIN ISSUE_KEYS : \E v \in ISSUE_KEYS[b] : contains(t, v)}

\* The words of the lowered text t counted as negative terms, in order.
neg_words(t) ==
    SelectSeq(split(blank_out(blank_out(t, ","), ".")),
              LAMBDA w : w \in DOMAIN LEXICON /\ LEXICON[w] < 0)

\* The label accumulate_counts gives the row whose stripped text is txt.
label_of(r, txt) == analyze_text(txt, LEXICON).label

\* The negative branch without the default region: a row with a blank state
\* is left out of issues_by_state.
negative_step_no_default(c, r, txt) ==
    [c EXCEPT !.issues_by_state = IF strip(r.state) = <<>> THEN @ ELSE incr(@, strip(r.state)),
              !.issue_buckets =
                  [b \in DOMAIN @ \cup issues_hit(lower(txt)) |->
                      get(@, b) + (IF b \in issues_hit(lower(txt)) THEN 1 ELSE 0)],
              !.neg_terms = incr_each(@, neg_words(lower(txt)))]

\* The update of the negative branch (label == "negative").
negative_step(c, r, txt) ==
    [c EXCEPT !.issues_by_state = incr(@, state_of(r)),
              !.issue_buckets =
                  [b \in DOMAIN @ \cup issues_hit(lower(txt)) |->
                      get(@, b) + (IF b \in issues_hit(lower(txt)) THEN 1 ELSE 0)],
              !.neg_terms = incr_each(@, neg_words(lower(txt)))]

\* The loop body without the test of line 60: a row with blank text is
\* analyzed and counted like any other.
row_step_no_skip(c, r) ==
    LET txt == strip(r.text)
        label == label_of(r, txt)
        c1 == [c EXCEPT !.label_counts = incr(@, label),
                        !.rating_hist = incr(@, bucket_rating(r.rating))]
    IN  IF label = "negative" THEN negative_step(c1, r, txt) ELSE c1

\* The body of the for loop for row r, from the counters c.
row_step(c, r) ==
    LET txt == strip(r.text)
        label == label_of(r, txt)
        c1 == [c EXCEPT !.label_counts = incr(@, label),
                        !.rating_hist = incr(@, bucket_rating(r.rating))]
    IN  IF txt = <<>> THEN c
        ELSE IF label = "negative" THEN negative_step(c1, r, txt)
        ELSE c1

\* The counters before the first row.
counts0 ==
    [label_counts |-> no_counts, rating_hist |-> no_counts, issues_by_state |-> no_counts,
     issue_buckets |-> no_counts, neg_terms |-> no_counts]

\* The dictionary accumulate_counts returns.
make_snapshot(c) ==
    [label_counts |-> c.label_counts,
     rating_hist |-> c.rating_hist,
     issues_by_state_top |-> top_k(c.issues_by_state, 10),
     issue_buckets |-> c.issue_buckets,
     neg_terms_top |-> top_k(c.neg_terms, 15)]

\* The counters after the rows rs, from the counters c.
RECURSIVE rows_run(_, _)
rows_run(c, rs) ==
    IF rs = <<>> THEN c ELSE rows_run(row_step(c, Head(rs)), Tail(rs))

accumulate_counts(rs) == make_snapshot(rows_run(counts0, rs))

row(txt, rating, st, lbl) == [text |-> txt, rating |-> rating, state |-> st, Label |-> lbl]

\* The rows a pass draws from.
Rows ==
    { row(<<"B","a","d"," ","w","a","i","t",".">>, num(47), <<" ","C","A"," ">>, ""),
      row(<<"g","o","o","d">>, not_num("bad"), <<>>,
          "negative"),
      row(<<"b","a","d">>, num(30), <<"N","Y">>, "positive"),
      row(<<" "," ">>, num(30), <<"N","Y">>, "negative"),
      row(<<"r","u","d","e",","," ","d","i","r","t","y",".","r","u","d","e">>, num(0),
          <<" "," ">>, ""),
      row(<<"c","a","r","e"," ","h","e","a","l","t","h">>, num(99), <<"C","A">>, "") }

\* A row source of one negative review from each of eleven states, one more
\* than issues_by_state_top keeps, and then a second from the last state.
Regions ==
    << <<"A","K">>, <<"A","L">>, <<"A","R">>, <<"A","Z">>, <<"C","A">>, <<"C","O">>,
       <<"C","T">>, <<"D","E">>, <<"F","L">>, <<"G","A">>, <<"H","I">> >>

RegionStream ==
    [n \in 1..(Len(Regions) + 1) |->
        row(<<"R","u","d","e",".">>, num(10), Regions[min(n, Len(Regions))], "")]

InitAggregate ==
    /\ rows = <<>>
    /\ counts = counts0
    /\ snapshot = <<>>
    /\ pc = "rows"
    /\ IdleAnalyze /\ IdleScore /\ IdleClassify /\ IdleSegment /\ IdleTopK /\ IdleBucket
    /\ IdleScan /\ IdleSplit /\ IdleMonthly /\ IdleApp

\* The for loop takes the next row.
NextRow ==
    /\ pc = "rows"
    /\ Len(rows) < MaxRows
    /\ \E r \in Rows :
           /\ rows' = Append(rows, r)
           /\ counts' = row_step(counts, r)
    /\ UNCHANGED <<snapshot, pc>>
    /\ UNCHANGED <<analyzeVars, scoreVars, classifyVars, segmentVars, topkVars, bucketVars>>
    /\ UNCHANGED <<scanVars, splitVars, monthlyVars, appVars>>

\* The for loop runs over the whole region stream.
RegionRows ==
    /\ pc = "rows"
    /\ rows = <<>>
    /\ rows' = RegionStream
    /\ counts' = rows_run(counts, RegionStream)
    /\ UNCHANGED <<snapshot, pc>>
    /\ UNCHANGED <<analyzeVars, scoreVars, classifyVars, segmentVars, topkVars, bucketVars>>
    /\ UNCHANGED <<scanVars, splitVars, monthlyVars, appVars>>

\* The rows are exhausted: accumulate_counts returns.
Return ==
    /\ pc = "rows"
    /\ snapshot' = <<make_snapshot(counts)>>
    /\ pc' = "returned"
    /\ UNCHANGED <<rows, counts>>
    /\ UNCHANGED <<analyzeVars, scoreVars, classifyVars, segmentVars, topkVars, bucketVars>>
    /\ UNCHANGED <<scanVars, splitVars, monthlyVars, appVars>>

NextAggregate == NextRow \/ RegionRows \/ Return

SpecAggregate == InitAggregate /\ [][NextAggregate]_vars

-----------------------------------------------------------------------------
(* metrics.py, the dashboard helpers: _filter_rows, monthly_card_metrics   *)
(* and monthly_sentiment_trend.  A percentage, a delta and an average are  *)
(* held in tenths, as round(x, 1) leaves them.                             *)

\* str.startswith
startswith(s, p) == Len(p) <= Len(s) /\ SubSeq(s, 1, Len(p)) = p

All == <<"A","l","l">>

AllStates == <<"A","l","l"," ","S","t","a","t","e","s">>

\* A row as load_reviews_csv builds it; Label is "" when the file gives none.
review_row(ym, st, lbl, txt, rating) ==
    [YearMonth |-> ym, State |-> st, Label |-> lbl, text |-> txt, rating |-> rating]

\* keep(r) of _filter_rows
keep(r, yf, sf) ==
    /\ (yf = All \/ startswith(r.YearMonth, yf))
    /\ (sf \in {AllStates, All} \/ r.State = sf)

_filter_rows(rs, yf, sf) == SelectSeq(rs, LAMBDA r : keep(r, yf, sf))

\* r.get("Label") or analyze_review(r.get("Review Text", ""))[0]
row_label(r) == IF r.Label # "" THEN r.Label ELSE analyze_review(r.text)[1]

\* The keys of a bucket: defaultdict(lambda: {"positive": 0, "neutral": 0,
\* "negative": 0}).  buckets[ym][label] += 1 raises KeyError for another label.
BucketLabels == {"positive", "neutral", "negative"}

\* The rows of rs that the loop counts: those whose YearMonth starts with yr.
counted_rows(rs, yr) == SelectSeq(rs, LAMBDA r : startswith(r.YearMonth, yr))

\* buckets[m][lbl] after the loop over the counted rows cs.
bucket_count(cs, m, lbl) ==
    Cardinality({n \in 1..Len(cs) : cs[n].YearMonth = m /\ row_label(cs[n]) = lbl})

\* sum(buckets[m].values())
bucket_total(cs, m) == Cardinality({n \in 1..Len(cs) : cs[n].YearMonth = m})

\* sorted(buckets.keys())
RECURSIVE sorted_months(_)
sorted_months(ms) ==
    IF ms = {} THEN <<>>
    ELSE LET first == CHOOSE m \in ms : \A o \in ms \ {m} : str_less(m, o)
         IN  <<first>> \o sorted_months(ms \ {first})

months_of(cs) == sorted_months({cs[n].YearMonth : n \in 1..Len(cs)})

\* round(x, 1) of the fraction f, in tenths: the nearest tenth, a tie to the
\* even one.
round1(f) ==
    LET n == 10 * f[1]
        q == n \div f[2]
        r == n - q * f[2]
    IN  IF 2 * r < f[2] THEN q
        ELSE IF 2 * r > f[2] THEN q + 1
        ELSE IF q % 2 = 0 THEN q ELSE q + 1

\* pct(count, total) of monthly_card_metrics
pct(count, tot) == IF tot # 0 THEN frac(100 * count, tot) ELSE <<0, 1>>

RECURSIVE sum_ratings(_)
sum_ratings(rs) == IF rs = <<>> THEN 0 ELSE Head(rs).rating + sum_ratings(Tail(rs))

\* mean([r.get("Review Rating", 0) for r in filt]) if filt else 0.0
avg_rating(filt) == IF filt = <<>> THEN <<0, 1>> ELSE frac(sum_ratings(filt), Len(filt))

\* The outcome of a call that raised.
raised(exc) == [kind |-> exc]

monthly_card_metrics(rs, yf, sf) ==
    LET filt == _filter_rows(rs, yf, sf)
        cs == counted_rows(filt, yf)
        months == months_of(cs)
        curr_m == months[Len(months)]
        has_prev == Len(months) >= 2 /\ months[Len(months) - 1] # <<>>
        prev_m == months[Len(months) - 1]
        c_total == bucket_total(cs, curr_m)
        c_pos == pct(bucket_count(cs, curr_m, "positive"), c_total)
        c_neg == pct(bucket_count(cs, curr_m, "negative"), c_total)
        p_total == bucket_total(cs, prev_m)
        p_pos == pct(bucket_count(cs, prev_m, "positive"), p_total)
        p_neg == pct(bucket_count(cs, prev_m, "negative"), p_total)
    IN  IF \E n \in 1..Len(cs) : row_label(cs[n]) \notin BucketLabels
        THEN raised("KeyError")
        ELSE IF months = <<>>
        THEN [kind |-> "ok", total_reviews |-> 0, total_delta_pct |-> 0, pos_pct |-> 0,
              pos_delta |-> 0, neg_pct |-> 0, neg_delta |-> 0, avg_rating |-> 0]
        ELSE [kind |-> "ok",
              total_reviews |-> Len(filt),
              total_delta_pct |->
                  IF has_prev /\ p_total # 0
                  THEN round1(frac(100 * (c_total - p_total), p_total)) ELSE 0,
              pos_pct |-> round1(c_pos),
              pos_delta |-> IF has_prev THEN round1(f_add(c_pos, f_neg(p_pos))) ELSE 0,
              neg_pct |-> round1(c_neg),
              neg_delta |-> IF has_prev THEN round1(f_add(c_neg, f_neg(p_neg))) ELSE 0,
              avg_rating |-> round1(avg_rating(filt))]

\* One entry of the trend: the percentages of month m.
trend_entry(cs, m) ==
    LET tot == IF bucket_total(cs, m) # 0 THEN bucket_total(cs, m) ELSE 1
    IN  [month |-> m,
         pos |-> round1(frac(100 * bucket_count(cs, m, "positive"), tot)),
         neu |-> round1(frac(100 * bucket_count(cs, m, "neutral"), tot)),
         neg |-> round1(frac(100 * bucket_count(cs, m, "negative"), tot))]

monthly_sentiment_trend(rs, yr) ==
    LET cs == counted_rows(rs, yr)
        months == months_of(cs)
    IN  IF \E n \in 1..Len(cs) : row_label(cs[n]) \notin BucketLabels
        THEN raised("KeyError")
        ELSE [kind |-> "ok", trend |-> [n \in 1..Len(months) |-> trend_entry(cs, months[n])]]

\* The rows a request is served from.
ReviewRows ==
    { review_row(<<"2","0","2","4","-","0","1">>, <<"C","A">>, "positive",
                 <<"g","o","o","d">>, 5),
      review_row(<<"2","0","2","4","-","0","2">>, <<"C","A">>, "negative",
                 <<"b","a","d">>, 1),
      review_row(<<"2","0","2","4","-","0","2">>, <<"N","Y">>, "",
                 <<"G","r","e","a","t"," ","c","a","r","e","!">>, 4),
      review_row(<<"2","0","2","3","-","1","2">>, <<"C","A">>, "neutral",
                 <<"o","k">>, 3),
      review_row(<<"2","0","2","4","-","0","1">>, <<"N","Y">>, "mixed",
                 <<"f","i","n","e">>, 2) }

RECURSIVE RowLists(_)
RowLists(n) ==
    IF n = 0 THEN {<<>>}
    ELSE RowLists(n - 1) \cup {Append(p, r) : p \in RowLists(n - 1), r \in ReviewRows}

YearFilters == {All, <<"2","0","2","4">>, <<"2","0","2","3">>}

StateFilters == {AllStates, All, <<"C","A">>}

InitMonthly ==
    /\ rows \in RowLists(MaxRows)
    /\ year_filter \in YearFilters
    /\ state_filter \in StateFilters
    /\ metrics = <<>>
    /\ trend = <<>>
    /\ pc = "monthly"
    /\ counts = <<>> /\ snapshot = <<>>
    /\ IdleAnalyze /\ IdleScore /\ IdleClassify /\ IdleSegment /\ IdleTopK /\ IdleBucket
    /\ IdleScan /\ IdleSplit /\ IdleApp

\* monthly_card_metrics(rows, year_filter=..., state_filter=...) runs to its end.
MonthlyCardMetrics ==
    /\ pc = "monthly"
    /\ metrics = <<>>
    /\ metrics' = <<monthly_card_metrics(rows, year_filter, state_filter)>>
    /\ UNCHANGED <<year_filter, state_filter, trend, pc>>
    /\ UNCHANGED <<analyzeVars, scoreVars, classifyVars, segmentVars, topkVars, bucketVars>>
    /\ UNCHANGED <<aggregateVars, scanVars, splitVars, appVars>>

\* monthly_sentiment_trend(rows, year) runs to its end.
MonthlySentimentTrend ==
    /\ pc = "monthly"
    /\ trend = <<>>
    /\ trend' = <<monthly_sentiment_trend(rows, year_filter)>>
    /\ UNCHANGED <<year_filter, state_filter, metrics, pc>>
    /\ UNCHANGED <<analyzeVars, scoreVars, classifyVars, segmentVars, topkVars, bucketVars>>
    /\ UNCHANGED <<aggregateVars, scanVars, splitVars, appVars>>

NextMonthly == MonthlyCardMetrics \/ MonthlySentimentTrend

SpecMonthly == InitMonthly /\ [][NextMonthly]_vars

-----------------------------------------------------------------------------
(* analyze_review's token scan, one loop iteration at a time.              *)

InitScan ==
    /\ tokens \in TokenLists(MaxTokens)
    /\ i = 0
    /\ total = <<0, 1>>
    /\ negate_next = FALSE
    /\ scale = <<1, 1>>
    /\ pc = "scan"
    /\ score = 0 /\ labels = <<>>
    /\ IdleAnalyze /\ IdleSegment /\ IdleTopK /\ IdleBucket /\ IdleAggregate
    /\ IdleSplit /\ IdleMonthly /\ IdleApp

\* One iteration of the for loop, on token tokens[i] (0-based).
ScanStep ==
    /\ pc = "scan"
    /\ i < Len(tokens)
    /\ LET st == review_step([total |-> total, negate_next |-> negate_next, scale |-> scale],
                             tokens[i + 1])
       IN  /\ total' = st.total
           /\ negate_next' = st.negate_next
           /\ scale' = st.scale
    /\ i' = i + 1
    /\ UNCHANGED <<tokens, score, labels, pc>>
    /\ UNCHANGED <<analyzeVars, segmentVars, topkVars, bucketVars, aggregateVars>>
    /\ UNCHANGED <<splitVars, monthlyVars, appVars>>

\* The tokens are exhausted: the loop ends.
ScanEnd ==
    /\ pc = "scan"
    /\ i = Len(tokens)
    /\ pc' = "scanned"
    /\ UNCHANGED <<tokens, i, total, negate_next, scale, score, labels>>
    /\ UNCHANGED <<analyzeVars, segmentVars, topkVars, bucketVars, aggregateVars>>
    /\ UNCHANGED <<splitVars, monthlyVars, appVars>>

NextScan == ScanStep \/ ScanEnd

SpecScan == InitScan /\ [][NextScan]_vars

-----------------------------------------------------------------------------
(* split_sentences on one text.                                            *)

InitSplit ==
    /\ text \in PieceTexts(MaxPieces)
    /\ sentences = <<>>
    /\ pc = "split"
    /\ lexicon = <<>> /\ result = <<>> /\ review = <<>>
    /\ IdleScore /\ IdleClassify /\ IdleSegment /\ IdleTopK /\ IdleBucket /\ IdleAggregate
    /\ IdleScan /\ IdleMonthly /\ IdleApp

\* split_sentences(text) returns.
SplitSentences ==
    /\ pc = "split"
    /\ sentences' = split_sentences(text)
    /\ pc' = "returned"
    /\ UNCHANGED <<analyzeVars, scoreVars, classifyVars, segmentVars, topkVars, bucketVars>>
    /\ UNCHANGED <<aggregateVars, scanVars, monthlyVars, appVars>>

SpecSplit == InitSplit /\ [][SplitSentences]_vars

-----------------------------------------------------------------------------
(* app.py: the module's REVIEWS list, init_data and the three routes.      *)
(* dataset is the list load_reviews_csv builds from the file each time it  *)
(* is called.  What a route renders is left out: it changes no state.      *)

\* The loop of init_data over the rows just loaded: a row without a Label
\* gets the label and the score of analyze_review.
attach_labels(rs) ==
    [n \in 1..Len(rs) |->
        IF rs[n].Label = ""
        THEN [rs[n] EXCEPT !.Label = analyze_review(rs[n].text)[1]]
                 @@ [Score |-> analyze_review(rs[n].text)[2]]
        ELSE rs[n]]

\* init_data(): REVIEWS and the number of loads after the call.
init_data(revs, n) ==
    IF revs = <<>> THEN [REVIEWS |-> attach_labels(dataset), loads |-> n + 1]
    ELSE [REVIEWS |-> revs, loads |-> n]

InitApp ==
    /\ dataset \in RowLists(MaxRows)
    /\ REVIEWS = <<>>
    /\ loads = 0
    /\ requests = 0
    /\ pc = "serving"
    /\ IdleAnalyze /\ IdleScore /\ IdleClassify /\ IdleSegment /\ IdleTopK /\ IdleBucket
    /\ IdleAggregate /\ IdleScan /\ IdleSplit /\ IdleMonthly

\* GET /
Dashboard ==
    /\ requests < MaxRequests
    /\ REVIEWS' = init_data(REVIEWS, loads).REVIEWS
    /\ loads' = init_data(REVIEWS, loads).loads
    /\ requests' = requests + 1
    /\ UNCHANGED <<dataset, pc>>
    /\ UNCHANGED <<analyzeVars, scoreVars, classifyVars, segmentVars, topkVars, bucketVars>>
    /\ UNCHANGED <<aggregateVars, scanVars, splitVars, monthlyVars>>

\* GET /reviews
ReviewsRoute ==
    /\ requests < MaxRequests
    /\ REVIEWS' = init_data(REVIEWS, loads).REVIEWS
    /\ loads' = init_data(REVIEWS, loads).loads
    /\ requests' = requests + 1
    /\ UNCHANGED <<dataset, pc>>
    /\ UNCHANGED <<analyzeVars, scoreVars, classifyVars, segmentVars, topkVars, bucketVars>>
    /\ UNCHANGED <<aggregateVars, scanVars, splitVars, monthlyVars>>

\* POST /analyze: the route does not call init_data.
AnalyzeRoute ==
    /\ requests < MaxRequests
    /\ requests' = requests + 1
    /\ UNCHANGED <<dataset, REVIEWS, loads, pc>>
    /\ UNCHANGED <<analyzeVars, scoreVars, classifyVars, segmentVars, topkVars, bucketVars>>
    /\ UNCHANGED <<aggregateVars, scanVars, splitVars, monthlyVars>>

NextApp == Dashboard \/ ReviewsRoute \/ AnalyzeRoute

SpecApp == InitApp /\ [][NextApp]_vars

-----------------------------------------------------------------------------
(* Properties.                                                             *)

is_blank(s) == \A n \in 1..Len(s) : s[n] \in Whitespace

empty_segment == [start |-> 0, end |-> 0, score |-> 0, text |-> <<>>]

\* C1: whatever the lexicon, analyzing the empty string or a whitespace-only
\* string gives label neutral and total score 0, an empty sentence list and
\* the zero-score empty strongest segment (start 0, end 0, text ""), and
\* analyze_review returns ("neutral", 0) for it.
C1_BlankIsNeutral ==
    is_blank(text) =>
        /\ result # <<>> =>
               /\ result[1].label = "neutral"
               /\ result[1].total_score = 0
               /\ result[1].sentence_scores = <<>>
               /\ result[1].strongest_segment = empty_segment
        /\ review # <<>> => review[1] = <<"neutral", 0>>

\* Both engines have analyzed a text of whitespace only.
C1_Witness ==
    /\ pc = "analyze"
    /\ text # <<>>
    /\ is_blank(text)
    /\ result # <<>>
    /\ review # <<>>

\* The label the specification's classifier gives a total (in hundredths).
expected_label(t) ==
    IF t > 50 THEN "positive" ELSE IF t < -50 THEN "negative" ELSE "neutral"

\* C2: for every total score, the label is positive exactly above +0.5,
\* negative exactly below -0.5 and neutral otherwise (+0.5 and -0.5 are
\* neutral), and analyze_review and analyze_text give the same total the
\* same label.
C2_SameThresholds ==
    pc = "classified" =>
        /\ labels.analyze_text = expected_label(total)
        /\ labels.analyze_review = expected_label(total)
        /\ labels.analyze_review = labels.analyze_text

factor(m) == IF m \in DOMAIN INTENSIFIERS THEN INTENSIFIERS[m] ELSE DEINTENSIFIERS[m]

\* C4: for every intensifier or de-intensifier m and every lexicon word x,
\* analyze_text of the two-word text "m x" has total score
\* factor(m) * polarity(x).
C4_ModifierScales ==
    \A m \in Modifiers :
        \A x \in DOMAIN lexicon :
            (result # <<>> /\ text = m \o <<" ">> \o x) =>
                result[1].total_score = factor(m) * lexicon[x]

\* The windows of at most three of n sentences, as <<length, start>>.
Windows(n) == {win \in (1..min(3, n)) \X (0..(n - 1)) : win[2] + win[1] <= n}

\* The sum of the scores of window win of the scored sentences ss.
window_sum(ss, win) == sum_scores(SubSeq(ss, win[2] + 1, win[2] + win[1]))

\* Window a is visited before window b: shorter first, then lower start.
visited_before(a, b) == a[1] < b[1] \/ (a[1] = b[1] /\ a[2] < b[2])

\* C5: the strongest segment of N scored sentences spans at most min(3, N)
\* sentences (none when N = 0: the empty segment), its absolute score is at
\* least that of every window of 1..min(3, N) sentences, and of the windows
\* of equal absolute sum it is the first visited.
C5_StrongestSegment ==
    pc = "returned" =>
        LET n == Len(sent_scores)
            b == best_segment
        IN  /\ n = 0 => b = empty_segment
            /\ n > 0 => /\ 0 <= b.start /\ b.start <= b.end /\ b.end <= n - 1
                        /\ b.end - b.start + 1 <= min(3, n)
            /\ \A win \in Windows(n) : abs(b.score) >= abs(window_sum(sent_scores, win))
            /\ n > 0 =>
                   \E win \in Windows(n) :
                       /\ b.start = win[2]
                       /\ b.end = win[2] + win[1] - 1
                       /\ b.score = window_sum(sent_scores, win)
                       /\ \A other \in Windows(n) :
                              abs(window_sum(sent_scores, other)) = abs(b.score)
                                  => other = win \/ visited_before(win, other)

\* Four sentences: the first three-sentence window is returned although the
\* second three-sentence window has the same absolute sum.
C5_Witness ==
    /\ pc = "returned"
    /\ Len(sent_scores) = 4
    /\ best_segment.start = 0
    /\ best_segment.end = 2
    /\ best_segment.score # 0
    /\ abs(window_sum(sent_scores, <<3, 1>>)) = abs(best_segment.score)

\* C6: for every count mapping d and every k >= 0, top_k(d, k) has at most k
\* entries, each an entry of d with its count, in order of descending count
\* and, for equal counts, ascending key, with no key twice, and every entry
\* left out ranks after every entry returned.
C6_TopK ==
    (pc = "returned" /\ k >= 0) =>
        /\ Len(top) <= k
        /\ \A n \in 1..Len(top) : top[n][1] \in DOMAIN d /\ top[n][2] = d[top[n][1]]
        /\ \A n \in 1..Len(top) : \A m \in (n + 1)..Len(top) :
               \/ top[n][2] > top[m][2]
               \/ top[n][2] = top[m][2] /\ str_less(top[n][1], top[m][1])
        /\ \A n \in 1..Len(top) : \A m \in 1..Len(top) : top[n][1] = top[m][1] => n = m
        /\ \A key \in DOMAIN d :
               (\A n \in 1..Len(top) : top[n][1] # key) =>
                   \A n \in 1..Len(top) :
                       \/ top[n][2] > d[key]
                       \/ top[n][2] = d[key] /\ str_less(top[n][1], key)

\* top_k cut a mapping of more than two keys to two, across a tie of counts.
C6_Witness ==
    /\ pc = "returned"
    /\ k = 2
    /\ Cardinality(DOMAIN d) > 2
    /\ Len(top) = 2
    /\ \E key \in DOMAIN d : key # top[2][1] /\ key # top[1][1] /\ d[key] = top[2][2]

\* The sum of the counts of a count mapping.
RECURSIVE sum_counts(_)
sum_counts(dd) ==
    IF DOMAIN dd = {} THEN 0
    ELSE LET key == CHOOSE x \in DOMAIN dd : TRUE
         IN  dd[key] + sum_counts([x \in DOMAIN dd \ {key} |-> dd[x]])

\* The rows of rs with non-empty text that the analyzer labels negative.
negative_rows(rs) ==
    {n \in 1..Len(rs) :
        /\ ~is_blank(rs[n].text)
        /\ analyze_text(strip(rs[n].text), LEXICON).label = "negative"}

\* C7: after the pass over a row sequence in which exactly m rows with
\* non-empty text are labelled negative, the counts of issues_by_state sum
\* to m, and a negative row with a blank or missing state is counted under
\* "Unknown".
C7_IssuesSumToNegatives ==
    /\ sum_counts(counts.issues_by_state) = Cardinality(negative_rows(rows))
    /\ get(counts.issues_by_state, Unknown)
           = Cardinality({n \in negative_rows(rows) :
                             is_blank(rows[n].state) \/ strip(rows[n].state) = Unknown})

\* A pass has returned after two negative rows, one of them with a blank
\* state, and a row that is not negative.
C7_Witness ==
    /\ pc = "returned"
    /\ Cardinality(negative_rows(rows)) = 2
    /\ Len(rows) = 3
    /\ get(counts.issues_by_state, Unknown) = 1
    /\ \E n \in negative_rows(rows) : rows[n].state # <<>> /\ is_blank(rows[n].state)

\* The merge of the specification: same-keyed counters are summed.
merge_counts(a, b) ==
    [key \in DOMAIN a \cup DOMAIN b |-> get(a, key) + get(b, key)]

merge(a, b) ==
    [label_counts |-> merge_counts(a.label_counts, b.label_counts),
     rating_hist |-> merge_counts(a.rating_hist, b.rating_hist),
     issues_by_state |-> merge_counts(a.issues_by_state, b.issues_by_state),
     issue_buckets |-> merge_counts(a.issue_buckets, b.issue_buckets),
     neg_terms |-> merge_counts(a.neg_terms, b.neg_terms)]

\* The rows of rs at the positions in S, from position n on, in order.
RECURSIVE pick_from(_, _, _)
pick_from(rs, S, n) ==
    IF n > Len(rs) THEN <<>>
    ELSE (IF n \in S THEN <<rs[n]>> ELSE <<>>) \o pick_from(rs, S, n + 1)

\* The counters of a pass over the rows of rs at the positions in S.
part_counts(rs, S) == rows_run(counts0, pick_from(rs, S, 1))

\* The count mapping a returned top list holds.
as_counts(lst) ==
    [key \in {lst[n][1] : n \in 1..Len(lst)} |->
        lst[CHOOSE n \in 1..Len(lst) : lst[n][1] = key][2]]

\* The merge applied to two returned snapshots: same-keyed counters are summed,
\* those of the top lists too, and top_k is computed again.
merge_snapshots(sa, sb) ==
    [label_counts |-> merge_counts(sa.label_counts, sb.label_counts),
     rating_hist |-> merge_counts(sa.rating_hist, sb.rating_hist),
     issues_by_state_top |->
         top_k(merge_counts(as_counts(sa.issues_by_state_top),
                            as_counts(sb.issues_by_state_top)), 10),
     issue_buckets |-> merge_counts(sa.issue_buckets, sb.issue_buckets),
     neg_terms_top |->
         top_k(merge_counts(as_counts(sa.neg_terms_top), as_counts(sb.neg_terms_top)), 15)]

claimed_label(r) ==
    IF r.Label # "" THEN r.Label ELSE analyze_text(strip(r.text), LEXICON).label

\* C9: every row with non-empty text is counted under its precomputed label
\* when it has one, and under the analyzer's label only when it has none.
C9_PrecomputedLabelCounts ==
    \A lbl \in {"positive", "neutral", "negative"} :
        get(counts.label_counts, lbl)
            = Cardinality({n \in 1..Len(rows) :
                              ~is_blank(rows[n].text) /\ claimed_label(rows[n]) = lbl})

\* C10: the bucket of every raw rating is one of "1".."5" and "NA": a number
\* v goes to "1" when v < 2, to "5" when v >= 5 and otherwise to the digit b
\* with b <= v < b + 1, and a value that is no number goes to "NA".
C10_RatingBucket ==
    pc = "returned" =>
        /\ bucket \in {"1", "2", "3", "4", "5", "NA"}
        /\ raw.kind = "num" =>
               /\ raw.tenths < 20 => bucket = "1"
               /\ raw.tenths >= 50 => bucket = "5"
               /\ \A b \in 2..4 :
                      (10 * b <= raw.tenths /\ raw.tenths < 10 * (b + 1)) => bucket = str_of(b)
        /\ raw.kind # "num" => bucket = "NA"

\* bucket_rating has returned "4" for a rating above 4.5.
C10_Witness ==
    /\ pc = "returned"
    /\ raw.kind = "num"
    /\ raw.tenths > 45
    /\ bucket = "4"

-----------------------------------------------------------------------------
(* Properties of the dashboard helpers.                                    *)

\* The greatest YearMonth among the rows rs (rs not empty).
latest_month(rs) ==
    CHOOSE m \in {rs[n].YearMonth : n \in 1..Len(rs)} :
        \A n \in 1..Len(rs) : ~str_less(m, rs[n].YearMonth)

\* The rows of rs in their latest month.
latest_rows(rs) ==
    IF rs = <<>> THEN <<>>
    ELSE SelectSeq(rs, LAMBDA r : r.YearMonth = latest_month(rs))

\* C11: when monthly_card_metrics returns, total_reviews is the number of
\* rows in the latest month among the rows that pass the year and state
\* filters.
C11_TotalIsLatestMonth ==
    (Len(metrics) = 1 /\ metrics[1].kind = "ok") =>
        metrics[1].total_reviews
            = Len(latest_rows(_filter_rows(rows, year_filter, state_filter)))

\* C12: the strongest segment of N >= 1 scored sentences has
\* 0 <= start <= end <= N - 1, its score is the sum of the scores of
\* sentences start..end, and its text is those sentences joined with one
\* space, in order; the empty segment with empty text comes only from N = 0.
C12_SegmentIsItsWindow ==
    (pc = "returned" /\ Len(sent_scores) >= 1) =>
        LET b == best_segment
            seg == SubSeq(sent_scores, b.start + 1, b.end + 1)
        IN  /\ 0 <= b.start /\ b.start <= b.end /\ b.end <= Len(sent_scores) - 1
            /\ b.score = sum_scores(seg)
            /\ b.text = join(<<" ">>, [n \in 1..Len(seg) |-> seg[n][1]])
            /\ b.text # <<>>

\* A negator, an intensifier or a de-intensifier of analyze_review.
is_modifier(t) ==
    t \in NEGATORS \cup DOMAIN REVIEW_INTENSIFIERS \cup DOMAIN REVIEW_DEINTENSIFIERS

\* Among the first n tokens of toks a negator has been seen since the last
\* token that is no modifier.
negator_pending(toks, n) ==
    \E j \in 1..n : toks[j] \in NEGATORS /\ \A m \in (j + 1)..n : is_modifier(toks[m])

\* toks with every run of negators cut down to its first negator.
RECURSIVE one_negator(_)
one_negator(toks) ==
    IF Len(toks) < 2 THEN toks
    ELSE IF toks[1] \in NEGATORS /\ toks[2] \in NEGATORS THEN one_negator(Tail(toks))
    ELSE <<Head(toks)>> \o one_negator(Tail(toks))

\* The token scan is at a state of its loop, i tokens done.
C13_FlagInvariant ==
    pc \in {"scan", "scanned"} =>
        /\ negate_next = negator_pending(tokens, i)
        /\ pc = "scanned" =>
               total = review_run([total |-> <<0, 1>>, negate_next |-> FALSE,
                                   scale |-> <<1, 1>>], one_negator(tokens)).total

\* One iteration of the scan: a negator sets the flag and adds nothing, another
\* modifier leaves flag and total alone, and any other token adds its polarity
\* times the scale, negated when the flag is set, and clears the flag.
C13_FlagStep ==
    (pc = "scan" /\ i' = i + 1) =>
        LET t == tokens[i + 1]
            val == frac(get(POLARITY, t), 10)
        IN  IF t \in NEGATORS THEN negate_next' /\ total' = total
            ELSE IF is_modifier(t) THEN negate_next' = negate_next /\ total' = total
            ELSE /\ ~negate_next'
                 /\ total' = f_add(total, f_mul(IF negate_next THEN f_neg(val) ELSE val, scale))

\* C13: at every step of analyze_review's token scan the negate flag is set
\* exactly when a negator has been seen since the last token that is no
\* modifier; the first such token after a negator (in the lexicon or not)
\* adds its polarity with the sign flipped and clears the flag, so that no
\* later token is flipped without another negator before it; and a run of
\* several negators has the effect of one.
C13_NegateFlag == [](C13_FlagInvariant) /\ [][C13_FlagStep]_vars

\* The scan has ended on [negator, x, y] with x and y in the lexicon: x was
\* added flipped and y as it is.
C13_Witness ==
    /\ pc = "scanned"
    /\ Len(tokens) = 3
    /\ tokens[1] \in NEGATORS
    /\ get(POLARITY, tokens[2]) # 0
    /\ get(POLARITY, tokens[3]) # 0
    /\ total = frac(get(POLARITY, tokens[3]) - get(POLARITY, tokens[2]), 10)
    /\ ~negate_next

\* The number of terminators among the first n characters of s.
terminators(s, n) == Cardinality({q \in 1..n : s[q] \in enders})

\* Position p of s is kept when the sentences are cut out: every character
\* but the whitespace at the start or the end of its stretch, a stretch
\* running up to and including a terminator or to the end of the text.
kept(s, p) ==
    \/ s[p] \notin Whitespace
    \/ /\ \E q \in 1..(p - 1) :
              s[q] \notin Whitespace /\ terminators(s, q - 1) = terminators(s, p - 1)
       /\ \E q \in (p + 1)..Len(s) :
              s[q] \notin Whitespace /\ terminators(s, q - 1) = terminators(s, p - 1)

\* The kept characters of s from position p on.
RECURSIVE kept_from(_, _)
kept_from(s, p) ==
    IF p > Len(s) THEN <<>>
    ELSE (IF kept(s, p) THEN <<s[p]>> ELSE <<>>) \o kept_from(s, p + 1)

\* The sentences one after another.
RECURSIVE concat(_)
concat(ss) == IF ss = <<>> THEN <<>> ELSE Head(ss) \o concat(Tail(ss))

\* C14: split_sentences emits, in the order of the text, sentences of which
\* each but possibly the last ends with '.', '!' or '?' and holds no other
\* terminator (the last holds none but at its end); there are as many as
\* terminators in the text, plus one when characters remain after the last
\* terminator; and one after another they are the text without the
\* whitespace at the sentence boundaries.
C14_SplitSentences ==
    pc = "returned" =>
        LET n == Len(sentences)
            m == terminators(text, Len(text))
            rest == text # <<>> /\ text[Len(text)] \notin enders
        IN  /\ n = m + (IF rest THEN 1 ELSE 0)
            /\ \A j \in 1..n :
                   /\ \A q \in 1..(Len(sentences[j]) - 1) : sentences[j][q] \notin enders
                   /\ (j < n \/ ~rest) =>
                          /\ sentences[j] # <<>>
                          /\ sentences[j][Len(sentences[j])] \in enders
                   /\ (j = n /\ rest) => terminators(sentences[j], Len(sentences[j])) = 0
            /\ concat(sentences) = kept_from(text, 1)

\* A text with two terminators and a rest after the second has been split in
\* three, and whitespace at a sentence boundary has been dropped.
C14_Witness ==
    /\ pc = "returned"
    /\ Len(sentences) = 3
    /\ terminators(text, Len(text)) = 2
    /\ Len(concat(sentences)) < Len(text)
    /\ sentences[3] # <<>>

\* C15: monthly_card_metrics and monthly_sentiment_trend end without raising
\* for every row list, the rows whose Label is a string other than positive,
\* neutral and negative included.
C15_NoRaise ==
    /\ Len(metrics) = 1 => metrics[1].kind = "ok"
    /\ Len(trend) = 1 => trend[1].kind = "ok"

\* C16: over any sequence of requests load_reviews_csv is called at most
\* once, REVIEWS stays what the first init_data made it, and from then on
\* every row of REVIEWS has a non-empty Label: its own when the file gave
\* one, otherwise analyze_review's label, with the score.
C16_LoadsOnce ==
    /\ loads <= 1
    /\ loads >= 1 =>
           /\ Len(REVIEWS) = Len(dataset)
           /\ \A n \in 1..Len(REVIEWS) :
                  /\ REVIEWS[n].Label # ""
                  /\ dataset[n].Label # "" => REVIEWS[n] = dataset[n]
                  /\ dataset[n].Label = "" =>
                         /\ REVIEWS[n].Label = analyze_review(dataset[n].text)[1]
                         /\ REVIEWS[n].Score = analyze_review(dataset[n].text)[2]

\* The rows of rs whose text is not blank.
text_rows(rs) == SelectSeq(rs, LAMBDA r : ~is_blank(r.text))

\* C17: after any rows of a pass, the counts of label_counts and those of
\* rating_hist both sum to the number of rows with non-blank text, and the
\* rows with blank text change no counter: the counters, and the snapshot
\* returned, are those of the pass over the other rows alone.
C17_CountsMatchRows ==
    /\ sum_counts(counts.label_counts) = Len(text_rows(rows))
    /\ sum_counts(counts.rating_hist) = Len(text_rows(rows))
    /\ counts = rows_run(counts0, text_rows(rows))
    /\ pc = "returned" =>
           /\ sum_counts(snapshot[1].label_counts) = Len(text_rows(rows))
           /\ sum_counts(snapshot[1].rating_hist) = Len(text_rows(rows))
           /\ snapshot[1] = accumulate_counts(text_rows(rows))

\* A pass has returned over three rows, one of them with blank text between
\* two that are counted.
C17_Witness ==
    /\ pc = "returned"
    /\ Len(rows) = 3
    /\ is_blank(rows[2].text)
    /\ rows[2].text # <<>>
    /\ sum_counts(snapshot[1].label_counts) = 2
    /\ sum_counts(snapshot[1].rating_hist) = 2

\* C18: monthly_card_metrics returns the all-zero default only when no row
\* passes the filters: with a row passing them, under the year "All" too,
\* total_reviews is at least 1 and pos_pct and neg_pct are the shares of the
\* positive and the negative labels among the rows of the latest month.
C18_DefaultOnlyWhenEmpty ==
    (Len(metrics) = 1 /\ metrics[1].kind = "ok") =>
        LET filt == _filter_rows(rows, year_filter, state_filter)
            latest == latest_rows(filt)
            share(lbl) ==
                round1(frac(100 * Cardinality({n \in 1..Len(latest) :
                                                  row_label(latest[n]) = lbl}),
                            Len(latest)))
        IN  filt # <<>> =>
                /\ metrics[1].total_reviews >= 1
                /\ metrics[1].pos_pct = share("positive")
                /\ metrics[1].neg_pct = share("negative")

====
